---- MODULE Spec2Model ----
(***************************************************************************)
(* Portfolio accounting of the P&L tracker: the transaction ledger and the *)
(* position fold of PnLTracker, the daily P&L history, the manual trade    *)
(* and balance forms, the exchange connector, the multi-exchange sync of   *)
(* ExchangeService, the wallet hook useWalletPnL and the notification      *)
(* settings.                                                               *)
(*                                                                         *)
(* JavaScript numbers are modelled as exact rationals <<n, d>> in lowest   *)
(* terms with d > 0, so that the divisions of the code (average cost,      *)
(* percentages) are computed and not approximated by integers.  Rounding   *)
(* of IEEE doubles, NaN and Infinity are outside the model.                *)
(***************************************************************************)
EXTENDS Integers, Sequences, FiniteSets, TLC

\* ------------------------------------------------------------------------
\* Bounds of the model
\* ------------------------------------------------------------------------
MaxTx == 2

MaxInflight == 2

MaxDay == 3

MaxTrades == 2

MaxBalances == 2

\* latest reading of the clock that stamps the balances
MaxClock == 3

\* calls of handleConnect and of syncAllConnectedExchanges in one behaviour
MaxConnects == 2

MaxSyncs == 1

\* calls of refreshWalletData in flight at one time
MaxWalletRuns == 2

\* ------------------------------------------------------------------------
\* Numbers
\* ------------------------------------------------------------------------
Abs(n) == IF n < 0 THEN -n ELSE n

RECURSIVE GCD(_, _)
GCD(a, b) == IF b = 0 THEN a ELSE GCD(b, a % b)

Rat(n, d) ==
  LET s == IF d < 0 THEN -1 ELSE 1
      g == GCD(Abs(n), Abs(d))
  IN  <<(s * n) \div g, (s * d) \div g>>

Zero == <<0, 1>>

Hundred == <<100, 1>>

RAdd(a, b) == Rat(a[1] * b[2] + b[1] * a[2], a[2] * b[2])

RSub(a, b) == Rat(a[1] * b[2] - b[1] * a[2], a[2] * b[2])

RMul(a, b) == Rat(a[1] * b[1], a[2] * b[2])

\* used only where the code has checked the divisor to be > 0
RDiv(a, b) == Rat(a[1] * b[2], a[2] * b[1])

RGt(a, b) == a[1] * b[2] > b[1] * a[2]

\* ------------------------------------------------------------------------
\* Form inputs: the strings an <input type="number"> or text field can hold
\* ------------------------------------------------------------------------
ParseFloat(s) ==
  CASE s = "0"   -> <<0, 1>>
    [] s = "-1"  -> <<-1, 1>>
    [] s = "0.5" -> <<1, 2>>
    [] s = "1"   -> <<1, 1>>
    [] s = "2"   -> <<2, 1>>
    [] s = "3"   -> <<3, 1>>
    [] s = "4"   -> <<4, 1>>
    [] s = "50"  -> <<50, 1>>

ToUpperCase(s) ==
  CASE s = "btc" -> "BTC"
    [] s = "eth" -> "ETH"
    [] OTHER     -> s

ToLowerCase(s) ==
  CASE s = "BTC" -> "btc"
    [] s = "ETH" -> "eth"
    [] OTHER     -> s

\* a JavaScript string is falsy exactly when it is empty
Falsy(s) == s = ""

Types == {"buy", "sell"}

\* what the user types into the transaction form of the tracker
SymbolInputs == {"", "btc", "ETH"}

AmountInputs == {"", "1", "2"}

PriceInputs == {"", "0", "2"}

\* the same form with out-of-range numbers, which the number inputs accept
FormSymbolInputs == {"", "btc"}

FormAmountInputs == {"", "-1", "1"}

FormPriceInputs == {"", "-1", "2"}

\* the form as used while the daily history is followed over several days
DailySymbolInputs == {"btc"}

DailyAmountInputs == {"1", "2"}

DailyPriceInputs == {"2"}

TradeAmountInputs == {"", "0", "1"}

TradePriceInputs == {"", "-1", "2"}

StartBalanceInputs == {"", "0", "-1", "3"}

POPULAR_TOKENS == {"BTC", "ETH"}

\* prices a price response can carry for one coin; 0 stands for a missing or
\* falsy usd field
UsdValues == {<<0, 1>>, <<3, 1>>}

\* state of PnLTracker; lastSample is the branch the daily P&L effect took
\* when it last ran; trades is the trade list of ManualExchangeInput
VARIABLES transactions, tokenPrices, positions, startBalance, dailyPnLHistory,
          today, inflight, lastSample, trades

\* the body of the last OK price response the tracker received
VARIABLE lastData

\* the balance list of ManualExchangeInput
VARIABLE balances

\* localStorage 'exchange-connections', the state of ExchangeConnector and
\* the connects in flight; one call of syncAllConnectedExchanges
VARIABLES storedConnections, connections, isConnecting, connecting,
          syncStatus, syncTasks, syncResults, syncReturned,
          nConnects, nSyncs

\* one direct call of ExchangeService.fetchExchangeData
VARIABLE fetchCall

\* the title of the toast ExchangeConnector showed last
VARIABLE toast

\* useWalletPnL: the wagmi account, the walletData state, the calls of
\* refreshWalletData in flight, and the prices and the fetched tokens the
\* last completed call used
VARIABLES walletConnected, walletData, walletRuns, walletPrices, walletFetched

walletVars == <<walletConnected, walletData, walletRuns, walletPrices, walletFetched>>

\* NotificationSettings: the settings state, and the notification events the
\* application has emitted
VARIABLES settings, events

notifyVars == <<settings, events>>

trackerVars == <<transactions, tokenPrices, positions, startBalance,
                 dailyPnLHistory, today, inflight, lastSample, trades, balances,
                 lastData>>

exchangeVars == <<storedConnections, connections, isConnecting, connecting,
                  syncStatus, syncTasks, syncResults, syncReturned,
                  nConnects, nSyncs, fetchCall, toast>>

vars == <<trackerVars, exchangeVars, walletVars, notifyVars>>

\* ------------------------------------------------------------------------
\* Position effect of PnLTracker
\* ------------------------------------------------------------------------
PriceOf(prices, symbol) ==
  IF symbol \in DOMAIN prices /\ prices[symbol] # Zero
  THEN prices[symbol] ELSE Zero

NewPosition(symbol, prices) ==
  [symbol |-> symbol, totalAmount |-> Zero, avgCostBasis |-> Zero,
   currentPrice |-> PriceOf(prices, symbol), totalInvested |-> Zero,
   currentValue |-> Zero, pnl |-> Zero, pnlPercentage |-> Zero]

\* a buy that sets the average cost when the position is opened only
ApplyBuy_FirstPrice(p, t) ==
  [p EXCEPT !.totalInvested = RAdd(p.totalInvested, t.totalValue),
            !.totalAmount = RAdd(p.totalAmount, t.amount),
            !.avgCostBasis = IF p.totalAmount = Zero THEN t.pricePerToken
                             ELSE p.avgCostBasis]

\* a buy that takes the price of the last buy as the average cost
ApplyBuy_LastPrice(p, t) ==
  [p EXCEPT !.totalInvested = RAdd(p.totalInvested, t.totalValue),
            !.totalAmount = RAdd(p.totalAmount, t.amount),
            !.avgCostBasis = t.pricePerToken]

ApplyBuy(p, t) ==
  LET newTotalInvested == RAdd(p.totalInvested, t.totalValue)
      newTotalAmount   == RAdd(p.totalAmount, t.amount)
  IN  [p EXCEPT !.totalInvested = newTotalInvested,
                !.totalAmount = newTotalAmount,
                !.avgCostBasis = IF RGt(newTotalAmount, Zero)
                                 THEN RDiv(newTotalInvested, newTotalAmount)
                                 ELSE Zero]

\* a sell that takes no more than what is held
ApplySell_Clamped(p, t) ==
  LET sold == IF RGt(t.amount, p.totalAmount) THEN p.totalAmount ELSE t.amount
  IN  [p EXCEPT !.totalAmount = RSub(p.totalAmount, sold),
                !.totalInvested = RSub(p.totalInvested, RMul(sold, p.avgCostBasis))]

\* a sell that takes the proceeds of the sale out of the invested total
ApplySell_AtSalePrice(p, t) ==
  [p EXCEPT !.totalAmount = RSub(p.totalAmount, t.amount),
            !.totalInvested = RSub(p.totalInvested, t.totalValue)]

ApplySell(p, t) ==
  [p EXCEPT !.totalAmount = RSub(p.totalAmount, t.amount),
            !.totalInvested = RSub(p.totalInvested,
                                   RMul(t.amount, p.avgCostBasis))]

ApplyTransaction(p, t) ==
  IF t.type = "buy" THEN ApplyBuy(p, t) ELSE ApplySell(p, t)

IndexOfSymbol(map, symbol) ==
  IF \E i \in 1..Len(map) : map[i].symbol = symbol
  THEN CHOOSE i \in 1..Len(map) : map[i].symbol = symbol
  ELSE 0

\* positionMap after transactions.forEach: one position per symbol, in the
\* order in which the symbols first occur (the key order of the object)
RECURSIVE FoldTransactions(_, _)
FoldTransactions(txs, prices) ==
  IF txs = <<>> THEN <<>>
  ELSE LET map    == FoldTransactions(SubSeq(txs, 1, Len(txs) - 1), prices)
           t      == txs[Len(txs)]
           symbol == ToUpperCase(t.tokenSymbol)
           i      == IndexOfSymbol(map, symbol)
       IN  IF i = 0
           THEN Append(map, ApplyTransaction(NewPosition(symbol, prices), t))
           ELSE [map EXCEPT ![i] = ApplyTransaction(map[i], t)]

\* a valuation that takes the percentage of the current value
Valuate_PercentOfValue(p, prices) ==
  LET currentPrice == PriceOf(prices, p.symbol)
      currentValue == RMul(p.totalAmount, currentPrice)
      pnl          == RSub(currentValue, p.totalInvested)
  IN  [p EXCEPT !.currentPrice = currentPrice,
                !.currentValue = currentValue,
                !.pnl = pnl,
                !.pnlPercentage = IF RGt(currentValue, Zero)
                                  THEN RMul(RDiv(pnl, currentValue), Hundred)
                                  ELSE Zero]

Valuate(p, prices) ==
  LET currentPrice == PriceOf(prices, p.symbol)
      currentValue == RMul(p.totalAmount, currentPrice)
      pnl          == RSub(currentValue, p.totalInvested)
  IN  [p EXCEPT !.currentPrice = currentPrice,
                !.currentValue = currentValue,
                !.pnl = pnl,
                !.pnlPercentage = IF RGt(p.totalInvested, Zero)
                                  THEN RMul(RDiv(pnl, p.totalInvested), Hundred)
                                  ELSE Zero]

ValuedPositionMap(txs, prices) ==
  LET map == FoldTransactions(txs, prices)
  IN  [i \in 1..Len(map) |-> Valuate(map[i], prices)]

\* a filter that keeps the positions that are not short
IsReported_NotNegative(p) == ~RGt(Zero, p.totalAmount)

IsReported(p) == RGt(p.totalAmount, Zero)

\* a resolution that folds onto the positions of the run before
ResolvePositions_OntoPrevious(txs, prices) ==
  LET map == FoldTransactions(txs, prices)
      onto == [i \in 1..Len(map) |->
                 IF IndexOfSymbol(positions, map[i].symbol) = 0 THEN map[i]
                 ELSE [map[i] EXCEPT
                         !.totalAmount = RAdd(map[i].totalAmount,
                            positions[IndexOfSymbol(positions, map[i].symbol)].totalAmount)]]
  IN  SelectSeq([i \in 1..Len(onto) |-> Valuate(onto[i], prices)], IsReported)

ResolvePositions(txs, prices) ==
  SelectSeq(ValuedPositionMap(txs, prices), IsReported)

\* ------------------------------------------------------------------------
\* Daily P&L effect of PnLTracker
\* ------------------------------------------------------------------------
RECURSIVE SumCurrentValue(_)
SumCurrentValue(ps) ==
  IF ps = <<>> THEN Zero
  ELSE RAdd(SumCurrentValue(Tail(ps)), Head(ps).currentValue)

getTotalPortfolioValue(ps) == SumCurrentValue(ps)

\* findIndex: the first index whose entry has the date, 0 when there is none
FindIndex(history, date) ==
  IF \E i \in 1..Len(history) : history[i].date = date
  THEN CHOOSE i \in 1..Len(history) :
         /\ history[i].date = date
         /\ \A j \in 1..(i - 1) : history[j].date # date
  ELSE 0

\* a percentage that divides without looking at the previous value
ChangePercentage_Unguarded(currentValue, previousValue) ==
  RMul(RDiv(RSub(currentValue, previousValue), previousValue), Hundred)

ChangePercentage(currentValue, previousValue) ==
  IF RGt(previousValue, Zero)
  THEN RMul(RDiv(RSub(currentValue, previousValue), previousValue), Hundred)
  ELSE Zero

Snapshot(date, currentValue, previousValue) ==
  [date |-> date, portfolioValue |-> currentValue,
   dailyChange |-> RSub(currentValue, previousValue),
   dailyChangePercentage |-> ChangePercentage(currentValue, previousValue)]

\* an update that measures today against today's own stored value
UpdatePreviousValue_OwnValue(history, i, balance) ==
  history[i].portfolioValue

\* dailyPnLHistory[existingEntryIndex - 1]?.portfolioValue || startBalance
UpdatePreviousValue(history, i, balance) ==
  IF i > 1 /\ history[i - 1].portfolioValue # Zero
  THEN history[i - 1].portfolioValue ELSE balance

\* an append that always measures against the start balance
AppendPreviousValue_StartBalance(history, balance) == balance

AppendPreviousValue(history, balance) ==
  IF Len(history) > 0 THEN history[Len(history)].portfolioValue ELSE balance

\* the branch of the daily effect that runs
DailyBranch(history, ps, date) ==
  IF getTotalPortfolioValue(ps) = Zero THEN "skipped"
  ELSE IF FindIndex(history, date) > 0 THEN "updated"
  ELSE "appended"

\* a daily effect that never looks for today's entry
TrackDailyPnL_AlwaysAppend(history, ps, balance, date) ==
  LET currentValue == getTotalPortfolioValue(ps)
  IN  IF currentValue = Zero THEN history
      ELSE Append(history,
                  Snapshot(date, currentValue, AppendPreviousValue(history, balance)))

\* a daily effect that samples a portfolio worth nothing like any other
TrackDailyPnL_Unguarded(history, ps, balance, date) ==
  LET currentValue == getTotalPortfolioValue(ps)
      i == FindIndex(history, date)
  IN  IF i > 0
      THEN [history EXCEPT ![i] =
              Snapshot(date, currentValue, UpdatePreviousValue(history, i, balance))]
      ELSE Append(history,
                  Snapshot(date, currentValue, AppendPreviousValue(history, balance)))

\* a daily effect that also measures the first entry against the start
\* balance anew
TrackDailyPnL_Rebased(history, ps, balance, date) ==
  LET currentValue == getTotalPortfolioValue(ps)
      i == FindIndex(history, date)
      h == IF i > 0
           THEN [history EXCEPT ![i] =
                   Snapshot(date, currentValue, UpdatePreviousValue(history, i, balance))]
           ELSE Append(history,
                       Snapshot(date, currentValue, AppendPreviousValue(history, balance)))
  IN  IF currentValue = Zero THEN history
      ELSE [h EXCEPT ![1] = Snapshot(h[1].date, h[1].portfolioValue, balance)]

TrackDailyPnL(history, ps, balance, date) ==
  LET currentValue == getTotalPortfolioValue(ps)
      i == FindIndex(history, date)
  IN  IF currentValue = Zero THEN history
      ELSE IF i > 0
      THEN [history EXCEPT ![i] =
              Snapshot(date, currentValue, UpdatePreviousValue(history, i, balance))]
      ELSE Append(history,
                  Snapshot(date, currentValue, AppendPreviousValue(history, balance)))

\* ------------------------------------------------------------------------
\* Exchanges
\* ------------------------------------------------------------------------
EXCHANGE_IDS == {"coinbase", "base"}

\* what the user types into the credential fields
ApiKeyInputs == {"", "01234", "0123456789", "0123456789a"}

ApiSecretInputs == {"", "abcdefghijk"}

PassphraseInputs == {"", "pw"}

StrLen(s) ==
  CASE s = "" -> 0
    [] s = "pw" -> 2
    [] s = "01234" -> 5
    [] s = "0123456789" -> 10
    [] s = "0123456789a" -> 11
    [] s = "abcdefghijk" -> 11

CredentialInputs ==
  [apiKey : ApiKeyInputs, apiSecret : ApiSecretInputs, passphrase : PassphraseInputs]

NoCredentials == [apiKey |-> "", apiSecret |-> "", passphrase |-> ""]

NoConnect == [active |-> FALSE, credentials |-> NoCredentials, snapshot |-> <<>>]

NoTask == [pc |-> "none", credentials |-> NoCredentials, txOk |-> FALSE, balOk |-> FALSE]

\* no call of fetchExchangeData made yet; requested tells whether
\* getTransactions and getBalances have been called
NoCall == [pc |-> "none", exchangeId |-> "null", credentials |-> NoCredentials,
           requested |-> FALSE]

\* exchange ids fetchExchangeData is called with
FetchIdInputs == {"coinbase", "base", "kraken"}

\* ------------------------------------------------------------------------
\* Wallet
\* ------------------------------------------------------------------------
ClearedWalletData ==
  [totalValue |-> Zero, tokens |-> <<>>, isLoading |-> FALSE, error |-> "null",
   lastUpdated |-> "null"]

NoRun == [pc |-> "idle", tokens |-> <<>>, held |-> <<>>]

TokenBalance(symbol, balance) ==
  [symbol |-> symbol, balance |-> balance, price |-> Zero, value |-> Zero]

\* what the account holds, as eth_getBalance and alchemy_getTokenBalances
\* report it: ETH first, then ERC-20s
WalletBalances ==
  { <<>>,
    <<TokenBalance("ETH", <<2, 1>>)>>,
    <<TokenBalance("ETH", <<2, 1>>), TokenBalance("USDC", <<1, 1>>)>> }

\* messages of the errors fetchWalletBalances rejects with
WalletErrors == {"Failed to fetch ETH balance", "Failed to fetch token balances"}

\* symbolMap[symbol.toUpperCase()] || symbol.toLowerCase()
WalletCoinId(symbol) ==
  CASE symbol = "ETH" -> "ethereum"
    [] symbol = "USDC" -> "usd-coin"
    [] OTHER -> ToLowerCase(symbol)

\* bodies of a price response for the wallet; 0 stands for a missing or
\* falsy usd field
WalletResponseBodies ==
  { [c \in {"ethereum", "usd-coin"} |-> IF c = "ethereum" THEN e ELSE u] :
      e \in {<<0, 1>>, <<3, 1>>}, u \in {<<0, 1>>, <<1, 1>>} }

\* ------------------------------------------------------------------------
\* Initial state: the component mounted with nothing in localStorage
\* ------------------------------------------------------------------------
Init ==
  /\ transactions = <<>>
  /\ tokenPrices = <<>>
  /\ positions = <<>>
  /\ startBalance = Zero
  /\ dailyPnLHistory = <<>>
  /\ today = 1
  /\ inflight = 1
  /\ lastSample = "none"
  /\ trades = <<>>
  /\ lastData = <<>>
  /\ balances = <<>>
  /\ storedConnections = <<>>
  /\ connections = <<>>
  /\ isConnecting = "null"
  /\ connecting = [id \in EXCHANGE_IDS |-> NoConnect]
  /\ syncStatus = "idle"
  /\ syncTasks = [id \in EXCHANGE_IDS |-> NoTask]
  /\ syncResults = <<>>
  /\ syncReturned = <<>>
  /\ nConnects = 0
  /\ nSyncs = 0
  /\ fetchCall = NoCall
  /\ toast = "null"
  /\ settings = [priceChangeEnabled |-> FALSE, priceChangeThreshold |-> <<10, 1>>]
  /\ events = {}
  /\ walletConnected = FALSE
  /\ walletData = ClearedWalletData
  /\ walletRuns = [r \in 1..MaxWalletRuns |-> NoRun]
  /\ walletPrices = <<>>
  /\ walletFetched = <<>>

\* ------------------------------------------------------------------------
\* Effects that follow a commit: the position effect runs when transactions
\* or tokenPrices changed, and the daily P&L effect runs when positions (a
\* new array on every run of the position effect) or startBalance changed.
\* ------------------------------------------------------------------------
RunEffects(txs, prices) ==
  LET ps == ResolvePositions(txs, prices)
  IN  /\ positions' = ps
      /\ dailyPnLHistory' = TrackDailyPnL(dailyPnLHistory, ps, startBalance, today)
      /\ lastSample' = DailyBranch(dailyPnLHistory, ps, today)

\* ------------------------------------------------------------------------
\* addTransaction of PnLTracker; the form fields are the inputs
\* ------------------------------------------------------------------------
\* id is Date.now().toString(): the decimal digits of the clock reading,
\* which are the same for two readings exactly when the readings are
NewTransactionRecord(tokenSymbol, type, amount, pricePerToken, now) ==
  [id |-> now,
   tokenSymbol |-> ToUpperCase(tokenSymbol),
   type |-> type,
   amount |-> ParseFloat(amount),
   pricePerToken |-> ParseFloat(pricePerToken),
   totalValue |-> RMul(ParseFloat(amount), ParseFloat(pricePerToken)),
   timestamp |-> now]

RECURSIVE LatestTimestamp(_)
LatestTimestamp(txs) ==
  IF txs = <<>> THEN 0
  ELSE LET rest == LatestTimestamp(Tail(txs))
       IN  IF Head(txs).timestamp > rest THEN Head(txs).timestamp ELSE rest

\* Date.now() when a transaction is added: the clock does not run backwards,
\* so it reads the time of the latest transaction plus the milliseconds
\* that have passed since, which may be none
DateNow(txs, elapsed) ==
  IF txs = <<>> THEN 1 ELSE LatestTimestamp(txs) + elapsed

\* t put into a list sorted by (a, b) => b.timestamp - a.timestamp; the sort
\* is stable, so t comes after the entries of its own timestamp
InsertByTimestamp(sorted, t) ==
  LET k == Cardinality({i \in 1..Len(sorted) : sorted[i].timestamp >= t.timestamp})
  IN  SubSeq(sorted, 1, k) \o <<t>> \o SubSeq(sorted, k + 1, Len(sorted))

\* transactions.sort((a, b) => b.timestamp - a.timestamp) of the render: the
\* sort is done in place on the array held in the state
RECURSIVE SortByTimestamp(_)
SortByTimestamp(txs) ==
  IF txs = <<>> THEN <<>>
  ELSE InsertByTimestamp(SortByTimestamp(SubSeq(txs, 1, Len(txs) - 1)),
                         txs[Len(txs)])

\* milliseconds between two submits of the form: some, or none when the
\* second submit falls into the clock tick of the first
ElapsedInputs == {1}

SameTickInputs == {0, 1}

\* addTransaction, the render that follows it, which sorts the new array in
\* place, and the effects after the render, which read the sorted array
AddTransactionWith(symbolIn, typeIn, amountIn, priceIn, elapsedIn) ==
  \E tokenSymbol \in symbolIn, type \in typeIn, amount \in amountIn,
     pricePerToken \in priceIn, elapsed \in elapsedIn :
    IF Falsy(tokenSymbol) \/ Falsy(amount) \/ Falsy(pricePerToken)
    THEN UNCHANGED vars
    ELSE /\ Len(transactions) < MaxTx
         /\ inflight < MaxInflight
         /\ transactions' = SortByTimestamp(Append(transactions,
               NewTransactionRecord(tokenSymbol, type, amount, pricePerToken,
                                    DateNow(transactions, elapsed))))
         \* the [transactions] effect restarts the timer and fetches at once
         /\ inflight' = inflight + 1
         /\ RunEffects(transactions', tokenPrices)
         /\ UNCHANGED <<tokenPrices, startBalance, today, trades, lastData, exchangeVars, walletVars, notifyVars, balances>>

addTransaction ==
  AddTransactionWith(SymbolInputs, Types, AmountInputs, PriceInputs, ElapsedInputs)

addTransactionForm ==
  AddTransactionWith(FormSymbolInputs, Types, FormAmountInputs, FormPriceInputs,
                     SameTickInputs)

addTransactionDaily ==
  AddTransactionWith(DailySymbolInputs, Types, DailyAmountInputs, DailyPriceInputs,
                     ElapsedInputs)

\* ------------------------------------------------------------------------
\* fetchTokenPrices: started by the timer, completed by the response
\* ------------------------------------------------------------------------
intervalFetch ==
  /\ inflight < MaxInflight
  /\ inflight' = inflight + 1
  /\ UNCHANGED <<transactions, tokenPrices, positions, startBalance,
                 dailyPnLHistory, today, lastSample, trades, lastData, exchangeVars, walletVars, notifyVars, balances>>

CoinId(token) ==
  CASE ToLowerCase(token) = "btc" -> "bitcoin"
    [] ToLowerCase(token) = "eth" -> "ethereum"
    [] OTHER -> ToLowerCase(token)

CoinIds == {CoinId(t) : t \in POPULAR_TOKENS}

TokensToFetch(txs) ==
  {txs[i].tokenSymbol : i \in 1..Len(txs)} \cup POPULAR_TOKENS

\* a price map that keeps the price of a symbol the response has left out
PricesFromData_Merged(tokens, data) ==
  LET priced == {t \in tokens : CoinId(t) \in DOMAIN data /\ data[CoinId(t)] # Zero}
      new == [k \in {ToUpperCase(t) : t \in priced} |->
                data[CoinId(CHOOSE t \in priced : ToUpperCase(t) = k)]]
  IN  [k \in DOMAIN tokenPrices \cup DOMAIN new |->
         IF k \in DOMAIN new THEN new[k] ELSE tokenPrices[k]]

\* the price map built from a response body: a token gets a price when the
\* body has a truthy usd value for its coin id
PricesFromData(tokens, data) ==
  LET priced == {t \in tokens : CoinId(t) \in DOMAIN data /\ data[CoinId(t)] # Zero}
  IN  [k \in {ToUpperCase(t) : t \in priced} |->
         data[CoinId(CHOOSE t \in priced : ToUpperCase(t) = k)]]

fetchFails ==
  /\ inflight > 0
  /\ inflight' = inflight - 1
  /\ UNCHANGED <<transactions, tokenPrices, positions, startBalance,
                 dailyPnLHistory, today, lastSample, trades, lastData, exchangeVars, walletVars, notifyVars, balances>>

\* the tokens asked for are those of the render that started the call; every
\* symbol of the form inputs is one of POPULAR_TOKENS, so they are the same
\* for every render
FetchSucceedsWith(bodies) ==
  /\ inflight > 0
  /\ \E data \in bodies :
       /\ tokenPrices' = PricesFromData(TokensToFetch(transactions), data)
       /\ lastData' = data
       /\ inflight' = inflight - 1
       /\ RunEffects(transactions, tokenPrices')
       /\ UNCHANGED <<transactions, startBalance, today, trades, exchangeVars, walletVars, notifyVars, balances>>

\* ------------------------------------------------------------------------
\* addTrade of ManualExchangeInput
\* ------------------------------------------------------------------------
ExchangeNameInputs == {"", "kraken"}

RECURSIVE LatestTradeId(_)
LatestTradeId(trs) ==
  IF trs = <<>> THEN 0
  ELSE LET rest == LatestTradeId(Tail(trs))
       IN  IF Head(trs).id > rest THEN Head(trs).id ELSE rest

NewTradeRecord(exchangeName, tokenSymbol, type, amount, pricePerToken, now) ==
  [id |-> now,
   exchangeName |-> exchangeName,
   tokenSymbol |-> ToUpperCase(tokenSymbol),
   type |-> type,
   amount |-> ParseFloat(amount),
   pricePerToken |-> ParseFloat(pricePerToken),
   totalValue |-> RMul(ParseFloat(amount), ParseFloat(pricePerToken))]

addTrade ==
  \E exchangeName \in ExchangeNameInputs, tokenSymbol \in FormSymbolInputs,
     type \in Types, amount \in TradeAmountInputs,
     pricePerToken \in TradePriceInputs, elapsed \in SameTickInputs :
    IF Falsy(exchangeName) \/ Falsy(tokenSymbol) \/ Falsy(amount)
       \/ Falsy(pricePerToken)
    THEN UNCHANGED vars
    ELSE /\ Len(trades) < MaxTrades
         /\ trades' = Append(trades,
               NewTradeRecord(exchangeName, tokenSymbol, type, amount, pricePerToken,
                              IF trades = <<>> THEN 1
                              ELSE LatestTradeId(trades) + elapsed))
         /\ UNCHANGED <<transactions, tokenPrices, positions, startBalance,
                        dailyPnLHistory, today, inflight, lastSample, lastData,
                        exchangeVars, walletVars, notifyVars, balances>>

\* ------------------------------------------------------------------------
\* addBalance, deleteBalance and getTotalValue of ManualExchangeInput
\* ------------------------------------------------------------------------
BalanceExchangeInputs == {"", "kraken", "binance"}

BalanceSymbolInputs == {"", "btc"}

BalanceAmountInputs == {"", "1", "2"}

\* the price field is optional
BalancePriceInputs == {"", "0", "3"}

RECURSIVE LatestUpdate(_)
LatestUpdate(bs) ==
  IF bs = <<>> THEN 0
  ELSE LET rest == LatestUpdate(Tail(bs))
       IN  IF Head(bs).lastUpdated > rest THEN Head(bs).lastUpdated ELSE rest

\* newBalance.currentPrice ? parseFloat(newBalance.currentPrice) : 0
BalancePrice(currentPrice) ==
  IF Falsy(currentPrice) THEN Zero ELSE ParseFloat(currentPrice)

\* the value undefined of an optional number
Undefined == <<>>

\* currentPrice ? amount * currentPrice : amount
BalanceValue(amount, currentPrice) ==
  IF currentPrice # Zero THEN RMul(amount, currentPrice) ELSE amount

NewBalanceRecord(exchangeName, tokenSymbol, amount, currentPrice, now) ==
  [id |-> now,
   exchangeName |-> exchangeName,
   tokenSymbol |-> ToUpperCase(tokenSymbol),
   amount |-> ParseFloat(amount),
   currentPrice |-> IF BalancePrice(currentPrice) # Zero
                    THEN BalancePrice(currentPrice) ELSE Undefined,
   totalValue |-> BalanceValue(ParseFloat(amount), BalancePrice(currentPrice)),
   lastUpdated |-> now]

addBalance ==
  \E exchangeName \in BalanceExchangeInputs, tokenSymbol \in BalanceSymbolInputs,
     amount \in BalanceAmountInputs, currentPrice \in BalancePriceInputs,
     elapsed \in SameTickInputs :
    IF Falsy(exchangeName) \/ Falsy(tokenSymbol) \/ Falsy(amount)
    THEN UNCHANGED vars
    ELSE /\ Len(balances) < MaxBalances
         /\ LatestUpdate(balances) + elapsed <= MaxClock
         /\ balances' = Append(balances,
               NewBalanceRecord(exchangeName, tokenSymbol, amount, currentPrice,
                                IF balances = <<>> THEN 1
                                ELSE LatestUpdate(balances) + elapsed))
         /\ UNCHANGED <<transactions, tokenPrices, positions, startBalance,
                        dailyPnLHistory, today, inflight, lastSample, trades, lastData,
                        exchangeVars, walletVars, notifyVars>>

\* the delete button of a listed balance
deleteBalance ==
  \E k \in 1..Len(balances) :
    /\ balances' = SelectSeq(balances, LAMBDA b : b.id # balances[k].id)
    /\ UNCHANGED <<transactions, tokenPrices, positions, startBalance,
                   dailyPnLHistory, today, inflight, lastSample, trades, lastData,
                   exchangeVars, walletVars, notifyVars>>

RECURSIVE getTotalValue(_)
getTotalValue(bs) ==
  IF bs = <<>> THEN Zero ELSE RAdd(getTotalValue(Tail(bs)), Head(bs).totalValue)

\* ------------------------------------------------------------------------
\* NotificationSettings: updateSetting from the switch, the threshold field
\* and the preset buttons.  The settings are stored and shown; no code of
\* the application reads them to emit an event, so events stays as it is.
\* ------------------------------------------------------------------------
ThresholdInputs == {"", "0", "-1", "0.5", "50"}

ThresholdPresets == {<<1, 1>>, <<5, 1>>, <<10, 1>>, <<20, 1>>}

\* parseFloat(e.target.value) || 10
ThresholdOf(value) ==
  IF Falsy(value) \/ ParseFloat(value) = Zero THEN <<10, 1>> ELSE ParseFloat(value)

switchPriceChange ==
  \E checked \in BOOLEAN :
    /\ settings' = [settings EXCEPT !.priceChangeEnabled = checked]
    /\ UNCHANGED <<trackerVars, exchangeVars, walletVars, events>>

\* the threshold field and the presets are shown while the switch is on
typeThreshold ==
  \E value \in ThresholdInputs :
    /\ settings.priceChangeEnabled
    /\ settings' = [settings EXCEPT !.priceChangeThreshold = ThresholdOf(value)]
    /\ UNCHANGED <<trackerVars, exchangeVars, walletVars, events>>

presetThreshold ==
  \E preset \in ThresholdPresets :
    /\ settings.priceChangeEnabled
    /\ settings' = [settings EXCEPT !.priceChangeThreshold = preset]
    /\ UNCHANGED <<trackerVars, exchangeVars, walletVars, events>>

RAbs(a) == <<Abs(a[1]), a[2]>>

\* ------------------------------------------------------------------------
\* setStartBalanceValue, and the calendar date moving on
\* ------------------------------------------------------------------------
setStartBalanceValue ==
  \E startBalanceInput \in StartBalanceInputs :
    IF Falsy(startBalanceInput)
    THEN UNCHANGED vars
    ELSE /\ startBalance' = ParseFloat(startBalanceInput)
         \* the daily effect runs only when the state value changed
         /\ dailyPnLHistory' =
              IF startBalance' = startBalance THEN dailyPnLHistory
              ELSE TrackDailyPnL(dailyPnLHistory, positions, startBalance', today)
         /\ lastSample' =
              IF startBalance' = startBalance THEN lastSample
              ELSE DailyBranch(dailyPnLHistory, positions, today)
         /\ UNCHANGED <<transactions, tokenPrices, positions, today, inflight,
                        trades, lastData, exchangeVars, walletVars, notifyVars, balances>>

midnight ==
  /\ today < MaxDay
  /\ today' = today + 1
  /\ UNCHANGED <<transactions, tokenPrices, positions, startBalance,
                 dailyPnLHistory, inflight, lastSample, trades, lastData, exchangeVars, walletVars, notifyVars, balances>>

\* ------------------------------------------------------------------------
\* ExchangeConnector: handleConnect, handleDisconnect
\* ------------------------------------------------------------------------
ExchangeName(id) ==
  CASE id = "coinbase" -> "Coinbase Pro"
    [] id = "base" -> "Base Chain"
    [] OTHER -> id

\* a validation that lets every credential set through
validateExchangeCredentials_Lenient(exchangeId, creds) == TRUE

\* validateExchangeCredentials of the connector
validateExchangeCredentials(exchangeId, creds) ==
  IF exchangeId = "coinbase"
  THEN /\ ~(Falsy(creds.apiKey) \/ Falsy(creds.apiSecret) \/ Falsy(creds.passphrase))
       /\ ~(StrLen(creds.apiKey) < 10 \/ StrLen(creds.apiSecret) < 10)
  ELSE IF exchangeId = "base"
  THEN ~Falsy(creds.apiKey)
  ELSE TRUE

WithoutId(conns, id) == SelectSeq(conns, LAMBDA c : c.id # id)

NewConnection(exchangeId, creds) ==
  [id |-> exchangeId, name |-> ExchangeName(exchangeId), type |-> exchangeId,
   connected |-> TRUE, lastSync |-> "connect", credentials |-> creds]

IsConnected(conns, exchangeId) ==
  \E i \in 1..Len(conns) : conns[i].id = exchangeId /\ conns[i].connected

\* handleConnect up to its await: the credentials typed in and the
\* connections of the render the handler belongs to.  The Connect button
\* is shown for an exchange that is not connected and is disabled while
\* isConnecting names the exchange; the model follows one connect in flight
\* per exchange.
connectBegin ==
  \E exchangeId \in EXCHANGE_IDS, creds \in CredentialInputs :
    /\ ~IsConnected(connections, exchangeId)
    /\ isConnecting # exchangeId
    /\ ~connecting[exchangeId].active
    /\ nConnects < MaxConnects
    /\ nConnects' = nConnects + 1
    /\ IF Falsy(creds.apiKey) \/ Falsy(creds.apiSecret)
       THEN \* the error is thrown before the await; finally clears isConnecting
            /\ isConnecting' = "null"
            /\ toast' = "Connection Failed"
            /\ UNCHANGED connecting
       ELSE /\ isConnecting' = exchangeId
            /\ connecting' = [connecting EXCEPT ![exchangeId] =
                 [active |-> TRUE, credentials |-> creds, snapshot |-> connections]]
            /\ UNCHANGED toast
    /\ UNCHANGED <<trackerVars, walletVars, notifyVars, fetchCall, storedConnections, connections,
                   syncStatus, syncTasks, syncResults, syncReturned, nSyncs>>

\* handleConnect after the await: saveConnections on success
connectComplete ==
  \E exchangeId \in EXCHANGE_IDS :
    /\ connecting[exchangeId].active
    /\ connecting' = [connecting EXCEPT ![exchangeId] = NoConnect]
    /\ isConnecting' = "null"
    /\ IF validateExchangeCredentials(exchangeId, connecting[exchangeId].credentials)
       THEN LET updatedConnections ==
                  Append(WithoutId(connecting[exchangeId].snapshot, exchangeId),
                         NewConnection(exchangeId, connecting[exchangeId].credentials))
            IN  /\ storedConnections' = updatedConnections
                /\ connections' = updatedConnections
                /\ toast' = "Connection Successful"
       ELSE /\ toast' = "Connection Failed"
            /\ UNCHANGED <<storedConnections, connections>>
    /\ UNCHANGED <<trackerVars, walletVars, notifyVars, fetchCall, syncStatus, syncTasks, syncResults, syncReturned,
                   nConnects, nSyncs>>

handleDisconnect ==
  \E exchangeId \in EXCHANGE_IDS :
    /\ IsConnected(connections, exchangeId)
    /\ storedConnections' = WithoutId(connections, exchangeId)
    /\ connections' = WithoutId(connections, exchangeId)
    /\ toast' = "Disconnected"
    /\ UNCHANGED <<trackerVars, walletVars, notifyVars, fetchCall, isConnecting, connecting, syncStatus, syncTasks, syncResults,
                   syncReturned, nConnects, nSyncs>>

\* ------------------------------------------------------------------------
\* ExchangeService
\* ------------------------------------------------------------------------
Supported(exchangeId) == exchangeId \in {"coinbase", "base"}

\* validateCredentials of CoinbaseProAPI and of BaseChainAPI
validateCredentials(exchangeId, creds) ==
  IF exchangeId = "coinbase"
  THEN /\ ~Falsy(creds.apiKey) /\ ~Falsy(creds.apiSecret) /\ ~Falsy(creds.passphrase)
       /\ StrLen(creds.apiKey) > 10
       /\ StrLen(creds.apiSecret) > 10
  ELSE ~Falsy(creds.apiKey) /\ StrLen(creds.apiKey) > 10

\* the simulated data of the two clients: transaction ids and balance symbols
ExchangeDataOf(exchangeId) ==
  IF exchangeId = "coinbase"
  THEN [transactions |-> <<"cb_1", "cb_2", "cb_3">>, balances |-> <<"BTC", "ETH", "USD">>]
  ELSE [transactions |-> <<"base_1", "base_2">>, balances |-> <<"ETH", "USDC">>]

\* a failed exchange that makes the whole sync reject
CatchSyncError_Rethrow(status) == "rejected"

\* the catch block of a sync task: the error is logged and not thrown on
CatchSyncError(status) == status

SyncedAt(conns, exchangeId) ==
  [i \in 1..Len(conns) |->
     IF conns[i].id = exchangeId THEN [conns[i] EXCEPT !.lastSync = "sync"]
     ELSE conns[i]]

\* conn.connected && conn.credentials: the credentials of a stored
\* connection are an object, which is truthy whatever its fields hold
ConnectedWithCredentials(conns) ==
  SelectSeq(conns, LAMBDA c : c.connected)

\* syncAllConnectedExchanges up to Promise.allSettled: one task per stored
\* connection that is connected and has credentials
syncStart ==
  /\ syncStatus \in {"idle", "returned"}
  /\ LET conns == ConnectedWithCredentials(storedConnections)
     IN  syncTasks' = [id \in EXCHANGE_IDS |->
           IF \E i \in 1..Len(conns) : conns[i].id = id
           THEN [pc |-> "validating",
                 credentials |-> (conns[CHOOSE i \in 1..Len(conns) : conns[i].id = id]).credentials,
                 txOk |-> FALSE, balOk |-> FALSE]
           ELSE NoTask]
  /\ syncResults' = <<>>
  /\ syncReturned' = <<>>
  /\ syncStatus' = "running"
  /\ nSyncs < MaxSyncs
  /\ nSyncs' = nSyncs + 1
  /\ UNCHANGED <<trackerVars, walletVars, notifyVars, fetchCall, toast, storedConnections, connections, isConnecting,
                 connecting,
                 nConnects>>

\* fetchExchangeData up to the credential check
syncValidate ==
  \E id \in EXCHANGE_IDS :
    /\ syncTasks[id].pc = "validating"
    /\ IF Supported(id) /\ validateCredentials(id, syncTasks[id].credentials)
       THEN /\ syncTasks' = [syncTasks EXCEPT ![id].pc = "fetching"]
            /\ UNCHANGED syncStatus
       ELSE /\ syncTasks' = [syncTasks EXCEPT ![id].pc = "failed"]
            /\ syncStatus' = CatchSyncError(syncStatus)
    /\ UNCHANGED <<trackerVars, walletVars, notifyVars, fetchCall, toast, storedConnections, connections, isConnecting,
                 connecting,
                   syncResults, syncReturned, nConnects, nSyncs>>

\* Promise.all of getTransactions and getBalances settles; on success the
\* data is stored in results and the sync time of the connection updated
syncFetched ==
  \E id \in EXCHANGE_IDS, txOk \in BOOLEAN, balOk \in BOOLEAN :
    /\ syncTasks[id].pc = "fetching"
    /\ IF txOk /\ balOk
       THEN /\ syncTasks' = [syncTasks EXCEPT ![id].pc = "done",
                                               ![id].txOk = TRUE, ![id].balOk = TRUE]
            /\ syncResults' = [k \in DOMAIN syncResults \cup {id} |->
                                 IF k = id THEN ExchangeDataOf(id) ELSE syncResults[k]]
            /\ storedConnections' = SyncedAt(storedConnections, id)
            /\ UNCHANGED syncStatus
       ELSE /\ syncTasks' = [syncTasks EXCEPT ![id].pc = "failed",
                                               ![id].txOk = txOk, ![id].balOk = balOk]
            /\ syncStatus' = CatchSyncError(syncStatus)
            /\ UNCHANGED <<syncResults, storedConnections>>
    /\ UNCHANGED <<trackerVars, walletVars, notifyVars, fetchCall, toast, connections, isConnecting, connecting, syncReturned,
                   nConnects, nSyncs>>

\* Promise.allSettled resolves when every task has settled
syncReturn ==
  /\ syncStatus = "running"
  /\ \A id \in EXCHANGE_IDS : syncTasks[id].pc \in {"none", "done", "failed"}
  /\ syncStatus' = "returned"
  /\ syncReturned' = syncResults
  /\ UNCHANGED <<trackerVars, walletVars, notifyVars, fetchCall, toast, storedConnections, connections, isConnecting,
                 connecting,
                 syncTasks, syncResults, nConnects, nSyncs>>

\* fetchExchangeData called on its own: the switch on the exchange id, which
\* throws for an id without a client, up to the await of validateCredentials
fetchExchangeData ==
  \E exchangeId \in FetchIdInputs, creds \in CredentialInputs :
    /\ fetchCall.pc \in {"none", "returned", "thrown"}
    /\ fetchCall' = [pc |-> IF Supported(exchangeId) THEN "validating" ELSE "thrown",
                     exchangeId |-> exchangeId, credentials |-> creds,
                     requested |-> FALSE]
    /\ UNCHANGED <<trackerVars, walletVars, notifyVars, toast, storedConnections,
                   connections, isConnecting, connecting, syncStatus, syncTasks,
                   syncResults, syncReturned, nConnects, nSyncs>>

\* the credential check of the call: 'Invalid API credentials' is thrown, or
\* getTransactions and getBalances are called inside Promise.all
fetchExchangeDataValidated ==
  /\ fetchCall.pc = "validating"
  /\ fetchCall' =
       IF validateCredentials(fetchCall.exchangeId, fetchCall.credentials)
       THEN [fetchCall EXCEPT !.pc = "fetching", !.requested = TRUE]
       ELSE [fetchCall EXCEPT !.pc = "thrown"]
  /\ UNCHANGED <<trackerVars, walletVars, notifyVars, toast, storedConnections,
                 connections, isConnecting, connecting, syncStatus, syncTasks,
                 syncResults, syncReturned, nConnects, nSyncs>>

\* Promise.all settles: the data is returned, or the error of the call that
\* failed is thrown on
fetchExchangeDataSettled ==
  \E txOk \in BOOLEAN, balOk \in BOOLEAN :
    /\ fetchCall.pc = "fetching"
    /\ fetchCall' = [fetchCall EXCEPT !.pc = IF txOk /\ balOk THEN "returned"
                                             ELSE "thrown"]
    /\ UNCHANGED <<trackerVars, walletVars, notifyVars, toast, storedConnections,
                   connections, isConnecting, connecting, syncStatus, syncTasks,
                   syncResults, syncReturned, nConnects, nSyncs>>

\* ------------------------------------------------------------------------
\* useWalletPnL: refreshWalletData, split at its awaits, and the effect on
\* [address, isConnected]
\* ------------------------------------------------------------------------
RunsInFlight == {r \in 1..MaxWalletRuns : walletRuns[r].pc # "idle"}

FreeRun == CHOOSE r \in 1..MaxWalletRuns :
             /\ walletRuns[r].pc = "idle"
             /\ \A q \in 1..(r - 1) : walletRuns[q].pc # "idle"

\* refreshWalletData up to its first await
BeginRefresh ==
  /\ \E r \in 1..MaxWalletRuns : walletRuns[r].pc = "idle"
  /\ walletData' = [walletData EXCEPT !.isLoading = TRUE, !.error = "null"]
  /\ walletRuns' = [walletRuns EXCEPT ![FreeRun] =
                      [pc |-> "balances", tokens |-> <<>>, held |-> <<>>]]

\* prices[token.symbol] || 0
WalletPriceOf(prices, symbol) ==
  IF symbol \in DOMAIN prices /\ prices[symbol] # Zero THEN prices[symbol] ELSE Zero

\* the prices fetchTokenPrices builds from a response body
WalletPricesFromData(symbols, data) ==
  LET priced == {sym \in symbols :
                   WalletCoinId(sym) \in DOMAIN data /\ data[WalletCoinId(sym)] # Zero}
  IN  [k \in {ToUpperCase(sym) : sym \in priced} |->
         data[WalletCoinId(CHOOSE sym \in priced : ToUpperCase(sym) = k)]]

UpdatedTokens(tokens, prices) ==
  [i \in 1..Len(tokens) |->
     [tokens[i] EXCEPT !.price = WalletPriceOf(prices, tokens[i].symbol),
                       !.value = RMul(WalletPriceOf(prices, tokens[i].symbol),
                                      tokens[i].balance)]]

RECURSIVE SumValue(_)
SumValue(tokens) ==
  IF tokens = <<>> THEN Zero ELSE RAdd(SumValue(Tail(tokens)), Head(tokens).value)

\* a filter that keeps the tokens worth a dollar or more
WorthAtLeastOne(t) == ~RGt(<<1, 1>>, t.value)

WorthMoreThanOne(t) == RGt(t.value, <<1, 1>>)

\* refreshWalletData after fetchTokenPrices has resolved with prices
FinishRefresh(r, tokens, prices) ==
  \E updatedTokens \in {UpdatedTokens(tokens, prices)} :
    \E totalValue \in {SumValue(updatedTokens)} :
      /\ walletData' = [totalValue |-> totalValue,
                        tokens |-> SelectSeq(updatedTokens, WorthMoreThanOne),
                        isLoading |-> FALSE, error |-> "null",
                        lastUpdated |-> "date"]
      /\ walletRuns' = [walletRuns EXCEPT ![r] = NoRun]
      /\ walletPrices' = prices
  /\ walletFetched' = tokens

SymbolsOf(tokens) == {tokens[i].symbol : i \in 1..Len(tokens)}

\* the account connects: the effect calls refreshWalletData and sets the timer
walletConnect ==
  /\ ~walletConnected
  /\ walletConnected' = TRUE
  /\ BeginRefresh
  /\ UNCHANGED <<trackerVars, exchangeVars, notifyVars, walletPrices, walletFetched>>

\* the account disconnects: the effect clears the timer and the wallet data
walletDisconnect ==
  /\ walletConnected
  /\ walletConnected' = FALSE
  /\ walletData' = ClearedWalletData
  /\ UNCHANGED <<trackerVars, exchangeVars, notifyVars, walletRuns, walletPrices, walletFetched>>

\* refreshWalletData called by the 30-second timer or through refresh
refreshWalletData ==
  IF ~walletConnected
  THEN UNCHANGED vars
  ELSE /\ BeginRefresh
       /\ UNCHANGED <<trackerVars, exchangeVars, notifyVars, walletConnected, walletPrices, walletFetched>>

\* a catch block that sets the error and leaves isLoading as it is
CatchRefreshError_StillLoading(data, message) == [data EXCEPT !.error = message]

\* the catch block of refreshWalletData
CatchRefreshError(data, message) ==
  [data EXCEPT !.isLoading = FALSE, !.error = message]

\* fetchWalletBalances of call r rejects
BalancesRejected(r) ==
  \E message \in WalletErrors :
    /\ walletRuns[r].pc = "balances"
    /\ walletData' = CatchRefreshError(walletData, message)
    /\ walletRuns' = [walletRuns EXCEPT ![r] = NoRun]
    /\ UNCHANGED <<trackerVars, exchangeVars, notifyVars, walletConnected,
                   walletPrices, walletFetched>>

balancesRejected == \E r \in 1..MaxWalletRuns : BalancesRejected(r)

\* the token list fetchWalletBalances builds: ETH from the balance request,
\* and an ERC-20 when its alchemy_getTokenMetadata request is answered OK; a
\* token whose metadata request fails is passed over (continue, or the inner
\* catch) and the loop goes on
TokensFetched(held, metadataOk) ==
  SelectSeq(held, LAMBDA t : t.symbol = "ETH" \/ metadataOk)

\* fetchWalletBalances of call r resolves; without symbols fetchTokenPrices
\* returns {} at once and the call runs to its end
BalancesResolved(r) ==
  \E held \in WalletBalances, metadataOk \in BOOLEAN :
    /\ walletRuns[r].pc = "balances"
    /\ LET tokens == TokensFetched(held, metadataOk)
       IN  IF tokens = <<>>
           THEN FinishRefresh(r, tokens, <<>>)
           ELSE /\ walletRuns' = [walletRuns EXCEPT ![r] =
                     [pc |-> "prices", tokens |-> tokens, held |-> held]]
                /\ UNCHANGED <<walletData, walletPrices, walletFetched>>
    /\ UNCHANGED <<trackerVars, exchangeVars, notifyVars, walletConnected>>

balancesResolved == \E r \in 1..MaxWalletRuns : BalancesResolved(r)

\* the price request of call r fails or is answered non-OK: fetchTokenPrices
\* returns {}
PricesFailed(r) ==
  /\ walletRuns[r].pc = "prices"
  /\ FinishRefresh(r, walletRuns[r].tokens, <<>>)
  /\ UNCHANGED <<trackerVars, exchangeVars, notifyVars, walletConnected>>

pricesFailed == \E r \in 1..MaxWalletRuns : PricesFailed(r)

PricesResolved(r) ==
  \E data \in WalletResponseBodies :
    /\ walletRuns[r].pc = "prices"
    /\ FinishRefresh(r, walletRuns[r].tokens,
                     WalletPricesFromData(SymbolsOf(walletRuns[r].tokens), data))
    /\ UNCHANGED <<trackerVars, exchangeVars, notifyVars, walletConnected>>

pricesResolved == \E r \in 1..MaxWalletRuns : PricesResolved(r)

\* response bodies: every coin with one of the usd values
ResponseBodies == [CoinIds -> UsdValues]

\* response bodies that price bitcoin only
BitcoinBodies == {data \in ResponseBodies : data["ethereum"] = Zero}

fetchSucceeds == FetchSucceedsWith(BitcoinBodies)

fetchSucceedsDaily == FetchSucceedsWith(BitcoinBodies)

Next == addTransaction \/ intervalFetch \/ fetchFails \/ fetchSucceeds

Spec == Init /\ [][Next]_vars

NextForms == addTransactionForm \/ addTrade \/ fetchFails

SpecForms == Init /\ [][NextForms]_vars

NextDaily ==
  \/ addTransactionDaily
  \/ intervalFetch
  \/ fetchFails
  \/ fetchSucceedsDaily
  \/ setStartBalanceValue
  \/ midnight

SpecDaily == Init /\ [][NextDaily]_vars

NextSync ==
  \/ connectBegin
  \/ connectComplete
  \/ handleDisconnect
  \/ syncStart
  \/ syncValidate
  \/ syncFetched
  \/ syncReturn

SpecSync == Init /\ [][NextSync]_vars

\* the connector, and the service called on its own
NextConnect ==
  \/ connectBegin
  \/ connectComplete
  \/ handleDisconnect
  \/ fetchExchangeData
  \/ fetchExchangeDataValidated
  \/ fetchExchangeDataSettled

SpecConnect == Init /\ [][NextConnect]_vars

NextWallet ==
  \/ walletConnect
  \/ walletDisconnect
  \/ refreshWalletData
  \/ balancesRejected
  \/ balancesResolved
  \/ pricesFailed
  \/ pricesResolved

SpecWallet == Init /\ [][NextWallet]_vars

\* the requests call r of refreshWalletData is waiting for settle
RunSettles(r) ==
  BalancesRejected(r) \/ BalancesResolved(r) \/ PricesFailed(r) \/ PricesResolved(r)

\* every request of every call in flight is answered or fails in the end
SpecWalletLive ==
  /\ Init
  /\ [][NextWallet]_vars
  /\ \A r \in 1..MaxWalletRuns : WF_vars(RunSettles(r))

\* the settings next to a tracker that takes its daily snapshots
NextNotify ==
  \/ switchPriceChange
  \/ typeThreshold
  \/ presetThreshold
  \/ addTransactionDaily
  \/ fetchFails
  \/ fetchSucceedsDaily
  \/ setStartBalanceValue

SpecNotify == Init /\ [][NextNotify]_vars

NextBalances == addBalance \/ deleteBalance

SpecBalances == Init /\ [][NextBalances]_vars

\* ========================================================================
\* Properties
\* ========================================================================
TrackedSymbols == {ToUpperCase(s) : s \in SymbolInputs \ {""}}

TransactionsOf(txs, S) == SelectSeq(txs, LAMBDA t : ToUpperCase(t.tokenSymbol) = S)

RECURSIVE SumAmount(_)
SumAmount(txs) ==
  IF txs = <<>> THEN Zero ELSE RAdd(SumAmount(Tail(txs)), Head(txs).amount)

RECURSIVE SumSpent(_)
SumSpent(txs) ==
  IF txs = <<>> THEN Zero
  ELSE RAdd(SumSpent(Tail(txs)), RMul(Head(txs).amount, Head(txs).pricePerToken))

\* held amount of a symbol, counted without the fold: buys minus sells
RECURSIVE HeldAmount(_)
HeldAmount(txs) ==
  IF txs = <<>> THEN Zero
  ELSE IF Head(txs).type = "buy"
       THEN RAdd(HeldAmount(Tail(txs)), Head(txs).amount)
       ELSE RSub(HeldAmount(Tail(txs)), Head(txs).amount)

OnlyBuys(txs) ==
  /\ txs # <<>>
  /\ \A i \in 1..Len(txs) : txs[i].type = "buy" /\ RGt(txs[i].amount, Zero)

Tx(type, amount, pricePerToken) ==
  [tokenSymbol |-> "BTC", type |-> type, amount |-> amount,
   pricePerToken |-> pricePerToken, totalValue |-> RMul(amount, pricePerToken),
   timestamp |-> 0, id |-> 0]

\* Scenario A of the specification: buy 0.5 @ 45000, buy 0.5 @ 47000
ScenarioA == <<Tx("buy", <<1, 2>>, <<45000, 1>>), Tx("buy", <<1, 2>>, <<47000, 1>>)>>

\* the position of symbol S in a position map, a fresh position if none
PositionOf(map, S) ==
  IF IndexOfSymbol(map, S) = 0 THEN NewPosition(S, <<>>)
  ELSE map[IndexOfSymbol(map, S)]

\* C1: for a symbol whose transactions are all buys, the resolved position
\* has totalInvested = sum of amount * price, totalAmount = sum of the
\* amounts and avgCostBasis = totalInvested / totalAmount exactly; Scenario
\* A gives average cost 46000, held 1, invested 46000.
C1_BuysAverageCost ==
  /\ \A S \in TrackedSymbols :
       LET txs == TransactionsOf(transactions, S)
       IN  OnlyBuys(txs) =>
             \E i \in 1..Len(positions) :
               /\ positions[i].symbol = S
               /\ positions[i].totalInvested = SumSpent(txs)
               /\ positions[i].totalAmount = SumAmount(txs)
               /\ positions[i].avgCostBasis = RDiv(SumSpent(txs), SumAmount(txs))
  /\ LET p == ResolvePositions(ScenarioA, <<>>)
     IN  /\ Len(p) = 1
         /\ p[1].avgCostBasis = <<46000, 1>>
         /\ p[1].totalAmount = <<1, 1>>
         /\ p[1].totalInvested = <<46000, 1>>

\* two buys of one symbol at different prices have been folded
C1_Witness ==
  \E S \in TrackedSymbols :
    LET txs == TransactionsOf(transactions, S)
    IN  /\ OnlyBuys(txs)
        /\ Len(txs) >= 2
        /\ txs[1].pricePerToken # txs[2].pricePerToken
        /\ \E i \in 1..Len(positions) :
             positions[i].symbol = S /\ positions[i].avgCostBasis[2] # 1

\* what a sell of transaction t does to the position before it, as claimed
SellAsClaimed(before, after, t) ==
  /\ after.avgCostBasis = before.avgCostBasis
  /\ after.totalAmount = RSub(before.totalAmount, t.amount)
  /\ after.totalInvested =
       RSub(before.totalInvested, RMul(t.amount, before.avgCostBasis))

SellStep(txs, i) ==
  LET S == ToUpperCase(txs[i].tokenSymbol)
  IN  SellAsClaimed(
        PositionOf(FoldTransactions(SubSeq(txs, 1, i - 1), <<>>), S),
        PositionOf(FoldTransactions(SubSeq(txs, 1, i), <<>>), S),
        txs[i])

\* C2: folding a sell of amount a leaves avgCostBasis as it was, takes a off
\* totalAmount and a * (average cost before the sell) off totalInvested,
\* whatever the sale price; after Scenario A a sell of 0.2 at any price gives
\* held 0.8, invested 36800, average cost 46000.
C2_SellKeepsAverageCost ==
  /\ \A i \in 1..Len(transactions) :
       transactions[i].type = "sell" => SellStep(transactions, i)
  /\ \A price \in {<<0, 1>>, <<1, 1>>, <<50000, 1>>} :
       LET p == ResolvePositions(
                  Append(ScenarioA, Tx("sell", <<1, 5>>, price)), <<>>)
       IN  /\ Len(p) = 1
           /\ p[1].totalAmount = <<4, 5>>
           /\ p[1].totalInvested = <<36800, 1>>
           /\ p[1].avgCostBasis = <<46000, 1>>

\* a sell has been folded into a held position whose average cost differs
\* from the sale price, and the position is still reported
C2_Witness ==
  \E i \in 2..Len(transactions) :
    LET t == transactions[i]
        S == ToUpperCase(t.tokenSymbol)
        before == PositionOf(FoldTransactions(SubSeq(transactions, 1, i - 1), <<>>), S)
    IN  /\ t.type = "sell"
        /\ RGt(before.totalAmount, t.amount)
        /\ before.avgCostBasis # Zero
        /\ before.avgCostBasis # t.pricePerToken
        /\ i = Len(transactions)
        /\ \E k \in 1..Len(positions) :
             /\ positions[k].symbol = S
             /\ positions[k].avgCostBasis = before.avgCostBasis

\* C3: the resolved positions contain a symbol if and only if its held
\* amount after folding all of its transactions is > 0; a symbol whose held
\* amount is 0 or negative is not reported.
C3_ReportedIffHeld ==
  /\ \A S \in TrackedSymbols :
       (\E i \in 1..Len(positions) : positions[i].symbol = S)
         <=> RGt(HeldAmount(TransactionsOf(transactions, S)), Zero)
  /\ \A i, j \in 1..Len(positions) :
       positions[i].symbol = positions[j].symbol => i = j
  /\ \A i \in 1..Len(positions) : positions[i].symbol \in TrackedSymbols

\* a symbol was bought and sold down to exactly 0 and is not reported
C3_Witness ==
  \E S \in TrackedSymbols :
    /\ Len(TransactionsOf(transactions, S)) >= 2
    /\ HeldAmount(TransactionsOf(transactions, S)) = Zero
    /\ \A i \in 1..Len(positions) : positions[i].symbol # S

\* C4: a reported position has currentPrice = prices[symbol] (0 without an
\* entry), currentValue = held * currentPrice, pnl = currentValue - invested
\* and pnlPercentage = pnl / invested * 100 when invested > 0, else 0.
C4_Valuation ==
  \A i \in 1..Len(positions) :
    LET p == positions[i]
    IN  /\ p.currentPrice =
             IF p.symbol \in DOMAIN tokenPrices THEN tokenPrices[p.symbol] ELSE Zero
        /\ p.currentValue = RMul(p.totalAmount, p.currentPrice)
        /\ p.pnl = RSub(p.currentValue, p.totalInvested)
        /\ p.pnlPercentage =
             IF RGt(p.totalInvested, Zero)
             THEN RMul(RDiv(p.pnl, p.totalInvested), Hundred)
             ELSE Zero

\* a priced position with a gain or loss on a positive investment, next to
\* one without a price
C4_Witness ==
  \E i, j \in 1..Len(positions) :
    /\ positions[i].symbol \in DOMAIN tokenPrices
    /\ RGt(positions[i].totalInvested, Zero)
    /\ positions[i].pnl # Zero
    /\ positions[i].pnlPercentage # Zero
    /\ positions[j].symbol \notin DOMAIN tokenPrices
    /\ positions[j].currentValue = Zero

ValidTransaction(t) ==
  /\ RGt(t.amount, Zero)
  /\ ~RGt(Zero, t.pricePerToken)
  /\ t.tokenSymbol # ""

\* C5: a transaction whose amount is <= 0, whose unit price is < 0 or whose
\* symbol is empty is rejected and not appended, by addTransaction and by
\* addTrade: the ledger and the trade list hold valid transactions only.
C5_InvalidRejected ==
  /\ \A i \in 1..Len(transactions) : ValidTransaction(transactions[i])
  /\ \A i \in 1..Len(trades) : ValidTransaction(trades[i])

HasEntry(history, date) == \E i \in 1..Len(history) : history[i].date = date

\* C6: the daily history has at most one entry per date, and a sampling
\* step on a date that has an entry leaves the length of the history as it
\* was.
C6_OneEntryPerDate ==
  [][/\ \A i, j \in 1..Len(dailyPnLHistory') :
          dailyPnLHistory'[i].date = dailyPnLHistory'[j].date => i = j
     /\ HasEntry(dailyPnLHistory, today) =>
          Len(dailyPnLHistory') = Len(dailyPnLHistory)]_vars

\* the last run of the daily effect wrote over today's entry, with entries
\* of earlier days before it
C6_Witness ==
  /\ lastSample = "updated"
  /\ Len(dailyPnLHistory) >= 2
  /\ dailyPnLHistory[Len(dailyPnLHistory)].date = today

\* C7: sampling on a date without an entry appends the entry at the end; its
\* change is taken against the start balance when the history was empty and
\* against the portfolioValue of the last entry otherwise.
C7_AppendAgainstLast ==
  [][(dailyPnLHistory' # dailyPnLHistory /\ ~HasEntry(dailyPnLHistory, today)) =>
       LET n == Len(dailyPnLHistory)
           value == getTotalPortfolioValue(positions')
           previousValue == IF n = 0 THEN startBalance'
                            ELSE dailyPnLHistory[n].portfolioValue
       IN  /\ Len(dailyPnLHistory') = n + 1
           /\ SubSeq(dailyPnLHistory', 1, n) = dailyPnLHistory
           /\ dailyPnLHistory'[n + 1].date = today
           /\ dailyPnLHistory'[n + 1].portfolioValue = value
           /\ dailyPnLHistory'[n + 1].dailyChange = RSub(value, previousValue)]_vars

\* the last run of the daily effect appended a later day against the value
\* of the day before, and the first day was measured against a start balance
\* that is not 0
C7_Witness ==
  /\ lastSample = "appended"
  /\ Len(dailyPnLHistory) >= 2
  /\ dailyPnLHistory[Len(dailyPnLHistory)].date = today
  /\ dailyPnLHistory[2].dailyChange
       = RSub(dailyPnLHistory[2].portfolioValue, dailyPnLHistory[1].portfolioValue)
  /\ dailyPnLHistory[2].dailyChange # Zero
  /\ dailyPnLHistory[1].dailyChange # dailyPnLHistory[1].portfolioValue

\* C8: sampling on a date that has an entry recomputes that entry in place;
\* the entry is the last one, and its change is taken against the entry
\* before it (two back from the end), or the start balance when there is
\* none, never against today's own stored value.
C8_UpdateAgainstEntryBefore ==
  [][(dailyPnLHistory' # dailyPnLHistory /\ HasEntry(dailyPnLHistory, today)) =>
       LET n == Len(dailyPnLHistory)
           value == getTotalPortfolioValue(positions')
           previousValue == IF n >= 2 THEN dailyPnLHistory[n - 1].portfolioValue
                            ELSE startBalance'
       IN  /\ Len(dailyPnLHistory') = n
           /\ dailyPnLHistory[n].date = today
           /\ \A j \in 1..(n - 1) : dailyPnLHistory'[j] = dailyPnLHistory[j]
           /\ dailyPnLHistory'[n].date = today
           /\ dailyPnLHistory'[n].portfolioValue = value
           /\ dailyPnLHistory'[n].dailyChange = RSub(value, previousValue)]_vars

\* the last run of the daily effect recomputed today's entry, the second of
\* the history, as a loss against the first day's value
C8_Witness ==
  /\ lastSample = "updated"
  /\ Len(dailyPnLHistory) = 2
  /\ dailyPnLHistory[2].date = today
  /\ dailyPnLHistory[2].portfolioValue = getTotalPortfolioValue(positions)
  /\ dailyPnLHistory[2].dailyChange
       = RSub(dailyPnLHistory[2].portfolioValue, dailyPnLHistory[1].portfolioValue)
  /\ RGt(Zero, dailyPnLHistory[2].dailyChange)

\* the value a snapshot was measured against
PreviousValueOf(e) == RSub(e.portfolioValue, e.dailyChange)

\* C9: every snapshot has dailyChange = portfolioValue - previousValue and
\* dailyChangePercentage = dailyChange / previousValue * 100 when
\* previousValue > 0 and 0 otherwise; no percentage is the result of a
\* division by zero.
C9_ChangePercentage ==
  \A i \in 1..Len(dailyPnLHistory) :
    LET e == dailyPnLHistory[i]
        previousValue ==
          IF i > 1 THEN dailyPnLHistory[i - 1].portfolioValue
          ELSE PreviousValueOf(e)
    IN  /\ e.dailyChange = RSub(e.portfolioValue, previousValue)
        /\ e.dailyChangePercentage[2] > 0
        /\ e.dailyChangePercentage =
             IF RGt(previousValue, Zero)
             THEN RMul(RDiv(e.dailyChange, previousValue), Hundred)
             ELSE Zero

\* a first snapshot measured against 0 with percentage 0, and a later one
\* with a percentage
C9_Witness ==
  /\ Len(dailyPnLHistory) >= 2
  /\ PreviousValueOf(dailyPnLHistory[1]) = Zero
  /\ dailyPnLHistory[1].dailyChangePercentage = Zero
  /\ dailyPnLHistory[2].dailyChangePercentage # Zero

\* a task whose exchange passed the credential check and whose two calls
\* succeeded
FetchedSuccessfully(id) ==
  /\ Supported(id)
  /\ validateCredentials(id, syncTasks[id].credentials)
  /\ syncTasks[id].txOk
  /\ syncTasks[id].balOk

\* C10: in syncAllConnectedExchanges, whatever the order in which the
\* exchanges complete, the failure of one exchange keeps no successfully
\* fetched data of another exchange out of the result, and the call never
\* rejects.
C10_SyncFailuresIsolated ==
  /\ syncStatus # "rejected"
  /\ syncStatus = "returned" =>
       \A id \in EXCHANGE_IDS :
         FetchedSuccessfully(id) =>
           /\ id \in DOMAIN syncReturned
           /\ syncReturned[id] = ExchangeDataOf(id)

\* a sync has returned the data of one exchange while the other failed
C10_Witness ==
  /\ syncStatus = "returned"
  /\ \E id, other \in EXCHANGE_IDS :
       /\ syncTasks[id].pc = "failed"
       /\ FetchedSuccessfully(other)
       /\ DOMAIN syncReturned = {other}

\* C11: when a sync of several connected exchanges has returned and the task
\* of one exchange failed, the returned result names the failed exchange: it
\* holds an entry for it, next to the data of the exchanges that succeeded.
C11_FailureReported ==
  syncStatus = "returned" =>
    \A id \in EXCHANGE_IDS :
      /\ FetchedSuccessfully(id) => id \in DOMAIN syncReturned
      /\ syncTasks[id].pc = "failed" => id \in DOMAIN syncReturned

\* a call of fetchTokenPrices of the tracker completes as a failure: it
\* throws or is answered non-OK, so that no response body is received
TrackerFetchFailed ==
  /\ inflight' = inflight - 1
  /\ lastData' = lastData

\* a call of refreshWalletData completes after its price fetch failed or
\* priced nothing
WalletFetchFailed ==
  \E r \in 1..MaxWalletRuns :
    /\ walletRuns[r].pc = "prices"
    /\ walletRuns'[r].pc = "idle"
    /\ DOMAIN walletPrices' = {}

\* C12: a failed price fetch leaves the last-known prices in use: in the
\* tracker every symbol priced before the failed call has the same price
\* after it, and in the wallet every token priced before it is still listed
\* with that price, not valued at 0.
C12_LastKnownPrices ==
  [][/\ TrackerFetchFailed =>
          \A S \in DOMAIN tokenPrices :
            S \in DOMAIN tokenPrices' /\ tokenPrices'[S] = tokenPrices[S]
     /\ WalletFetchFailed =>
          \A i \in 1..Len(walletData.tokens) :
            walletData.tokens[i].price # Zero =>
              \E j \in 1..Len(walletData'.tokens) :
                /\ walletData'.tokens[j].symbol = walletData.tokens[i].symbol
                /\ walletData'.tokens[j].price = walletData.tokens[i].price]_vars

\* the tracker part of C12 alone
TrackerKeepsPrices ==
  [][TrackerFetchFailed =>
       \A S \in DOMAIN tokenPrices :
         S \in DOMAIN tokenPrices' /\ tokenPrices'[S] = tokenPrices[S]]_vars

\* C13: at most one sampling pipeline run is in flight at any time, in the
\* tracker (calls of fetchTokenPrices) and in the wallet (calls of
\* refreshWalletData): a trigger that arrives during a run starts no second
\* run.
C13_OnePipelineInFlight ==
  /\ inflight <= 1
  /\ Cardinality(RunsInFlight) <= 1

\* the wallet part of C13 alone
WalletOneRunInFlight == Cardinality(RunsInFlight) <= 1

\* C14: once the wallet is disconnected and its data cleared, no completion
\* of a call that was in flight writes into the state: while disconnected
\* the wallet data has totalValue 0, no tokens and no update time.
C14_DiscardedAfterDisconnect ==
  ~walletConnected =>
    /\ walletData.totalValue = Zero
    /\ walletData.tokens = <<>>
    /\ walletData.lastUpdated = "null"

\* C15: resolving again from the same ledger and the same price map gives
\* the same positions: in every state the positions that the program holds,
\* resolved by an earlier step, are what a resolution of the ledger and the
\* price map of the state gives now, whatever else has happened in between.
C15_ResolveIdempotent ==
  positions = ResolvePositions(transactions, tokenPrices)

\* positions of two symbols, one of them priced, that have been resolved
\* more than once
C15_Witness ==
  /\ lastSample = "updated"
  /\ Len(positions) = 2
  /\ \E i \in 1..Len(positions) : positions[i].currentValue # Zero

\* the position of the symbol of txs[i] before and after txs[i] is folded
Before(txs, i) ==
  PositionOf(FoldTransactions(SubSeq(txs, 1, i - 1), <<>>),
             ToUpperCase(txs[i].tokenSymbol))

After(txs, i) ==
  PositionOf(FoldTransactions(SubSeq(txs, 1, i), <<>>),
             ToUpperCase(txs[i].tokenSymbol))

\* C18: a sell of more than is held is folded like any other: the whole
\* amount is subtracted, so that held may be negative; a later buy adds onto
\* the negative amount; and the symbol is reported only if held is > 0 after
\* its last transaction.
C18_OversellCarried ==
  /\ \A i \in 1..Len(transactions) :
       After(transactions, i).totalAmount =
         IF transactions[i].type = "sell"
         THEN RSub(Before(transactions, i).totalAmount, transactions[i].amount)
         ELSE RAdd(Before(transactions, i).totalAmount, transactions[i].amount)
  /\ \A S \in TrackedSymbols :
       LET held == PositionOf(FoldTransactions(transactions, <<>>), S).totalAmount
       IN  /\ (\E k \in 1..Len(positions) : positions[k].symbol = S) <=> RGt(held, Zero)
           /\ \A k \in 1..Len(positions) :
                positions[k].symbol = S => positions[k].totalAmount = held

\* a sell was folded into a position that held less than it sold, a buy was
\* folded onto the negative amount, and the symbol is reported with the rest
C18_Witness ==
  \E i, j \in 1..Len(transactions) :
    /\ i < j
    /\ transactions[i].type = "sell"
    /\ RGt(transactions[i].amount, Before(transactions, i).totalAmount)
    /\ RGt(Zero, After(transactions, i).totalAmount)
    /\ transactions[j].type = "buy"
    /\ transactions[j].tokenSymbol = transactions[i].tokenSymbol
    /\ RGt(Zero, Before(transactions, j).totalAmount)
    /\ \E k \in 1..Len(positions) :
         /\ positions[k].symbol = transactions[i].tokenSymbol
         /\ positions[k].totalAmount = After(transactions, j).totalAmount

C20_InsertionOrder ==
  [][\/ transactions' = transactions
     \/ /\ Len(transactions') = Len(transactions) + 1
        /\ SubSeq(transactions', 1, Len(transactions)) = transactions]_vars

\* the balances entered for symbol S, over all exchanges
BalancesOf(bs, S) == SelectSeq(bs, LAMBDA b : b.tokenSymbol = S)

\* the price an entry was reported with, 0 when it was reported without one
ReportedPrice(b) == IF b.currentPrice = Undefined THEN Zero ELSE b.currentPrice

\* sum over the entries of quantity * price, each entry with its own price
RECURSIVE SumQuantityTimesPrice(_)
SumQuantityTimesPrice(bs) ==
  IF bs = <<>> THEN Zero
  ELSE RAdd(SumQuantityTimesPrice(Tail(bs)),
            RMul(Head(bs).amount, ReportedPrice(Head(bs))))

\* C16: the value of the balances of a symbol over all sources, and of all
\* balances, is the sum of quantity_i * price_i, each entry with the price of
\* its own source; an entry reported without a price adds no value.
C16_AggregatedValue ==
  /\ getTotalValue(balances) = SumQuantityTimesPrice(balances)
  /\ \A S \in {ToUpperCase(x) : x \in BalanceSymbolInputs \ {""}} :
       getTotalValue(BalancesOf(balances, S))
         = SumQuantityTimesPrice(BalancesOf(balances, S))
  /\ \A i \in 1..Len(balances) :
       balances[i].currentPrice = Undefined => balances[i].totalValue = Zero

\* C17: the percentage-threshold event has been emitted for today's
\* snapshot if and only if settings.priceChangeEnabled is true and the
\* absolute value of the snapshot's dailyChangePercentage is greater than or
\* equal to settings.priceChangeThreshold.
C17_PercentageThresholdEvent ==
  \A i \in 1..Len(dailyPnLHistory) :
    dailyPnLHistory[i].date = today =>
      (([kind |-> "percentage-threshold", date |-> today] \in events) <=>
         /\ settings.priceChangeEnabled
         /\ ~RGt(settings.priceChangeThreshold,
                 RAbs(dailyPnLHistory[i].dailyChangePercentage)))

\* credentials the connector calls missing or invalid: no API key or secret;
\* for Coinbase Pro also no passphrase, or a key or secret of fewer than 10
\* characters
MissingOrInvalid(exchangeId, creds) ==
  \/ creds.apiKey = ""
  \/ creds.apiSecret = ""
  \/ /\ exchangeId = "coinbase"
     /\ \/ creds.passphrase = ""
        \/ StrLen(creds.apiKey) < 10
        \/ StrLen(creds.apiSecret) < 10

\* C21: a connection attempt with missing or invalid credentials blocks only
\* that attempt: starting an attempt and ending one whose credentials are
\* missing or invalid leave the stored connections and the connections of
\* the connector as they were, those of the other exchange included, and the
\* attempt is reported as failed; and a call of fetchExchangeData that was
\* thrown out for an unsupported exchange id or for credentials that fail
\* validation has requested neither transactions nor balances.
C21_ConfigErrorBlocksOnlyAttempt ==
  [][/\ nConnects' # nConnects =>
          /\ storedConnections' = storedConnections
          /\ connections' = connections
          /\ \A id \in EXCHANGE_IDS :
               connecting'[id].active =>
                 /\ connecting'[id].credentials.apiKey # ""
                 /\ connecting'[id].credentials.apiSecret # ""
     /\ \A id \in EXCHANGE_IDS :
          (/\ connecting[id].active
           /\ ~connecting'[id].active
           /\ MissingOrInvalid(id, connecting[id].credentials)) =>
            /\ storedConnections' = storedConnections
            /\ connections' = connections
            /\ toast' = "Connection Failed"
     /\ (/\ fetchCall'.pc = "thrown"
         /\ \/ fetchCall'.exchangeId \notin {"coinbase", "base"}
            \/ ~validateCredentials(fetchCall'.exchangeId, fetchCall'.credentials)) =>
          ~fetchCall'.requested
     /\ fetchCall'.requested =>
          /\ fetchCall'.exchangeId \in {"coinbase", "base"}
          /\ validateCredentials(fetchCall'.exchangeId, fetchCall'.credentials)]_vars

\* an attempt has just failed while the connection of an exchange is stored,
\* and a call of fetchExchangeData for a supported exchange was thrown out
\* at the credential check
C21_Witness ==
  /\ toast = "Connection Failed"
  /\ nConnects = 2
  /\ Len(storedConnections) = 1
  /\ storedConnections = connections
  /\ fetchCall.pc = "thrown"
  /\ fetchCall.exchangeId = "base"
  /\ fetchCall.credentials.apiKey = "0123456789"
  /\ ~fetchCall.requested

\* C22: a wallet balance fetch that resolves returns the complete set of
\* balances: the token list a call of refreshWalletData got from
\* fetchWalletBalances holds every token the account holds, none of them
\* missing because a sub-request failed.
C22_BalancesCompleteOrError ==
  \A r \in 1..MaxWalletRuns :
    walletRuns[r].pc = "prices" => walletRuns[r].tokens = walletRuns[r].held

\* C23: the identifiers of the transactions in the ledger are pairwise
\* distinct after any sequence of additions, and so are those of the manual
\* trades, also when two of them are added within one tick of the clock.
C23_UniqueIds ==
  /\ \A i, j \in 1..Len(transactions) :
       transactions[i].id = transactions[j].id => i = j
  /\ \A i, j \in 1..Len(trades) : trades[i].id = trades[j].id => i = j

\* C24: a step that ends with a total portfolio value of 0 leaves the daily
\* history as it was, and every entry of the history has a portfolioValue
\* that is not 0; a day on which the portfolio is worth 0 keeps the entry it
\* had or gets none.
C24_ZeroTotalNotSampled ==
  [][/\ getTotalPortfolioValue(positions') = Zero =>
          dailyPnLHistory' = dailyPnLHistory
     /\ \A i \in 1..Len(dailyPnLHistory') :
          dailyPnLHistory'[i].portfolioValue # Zero]_vars

\* the daily effect has just passed over a portfolio worth 0 on a day that
\* has its entry from before
C24_Witness ==
  /\ lastSample = "skipped"
  /\ getTotalPortfolioValue(positions) = Zero
  /\ HasEntry(dailyPnLHistory, today)
  /\ transactions # <<>>

\* C25: a step changes at most the entry of the current date: the entries of
\* other dates stay where they are with their portfolioValue, dailyChange
\* and dailyChangePercentage, no entry changes its date, an entry that is
\* added is one of the current date, and the history never gets shorter;
\* this also when the step is a change of the start balance.
C25_OnlyTodaysEntryChanges ==
  [][/\ Len(dailyPnLHistory') >= Len(dailyPnLHistory)
     /\ \A i \in 1..Len(dailyPnLHistory) :
          /\ dailyPnLHistory'[i].date = dailyPnLHistory[i].date
          /\ dailyPnLHistory[i].date # today =>
               dailyPnLHistory'[i] = dailyPnLHistory[i]
     /\ \A i \in (Len(dailyPnLHistory) + 1)..Len(dailyPnLHistory') :
          dailyPnLHistory'[i].date = today]_vars

\* today's entry has been sampled after entries of earlier days, the first
\* of which is still measured against a start balance that has been changed
\* since
C25_Witness ==
  /\ Len(dailyPnLHistory) >= 2
  /\ dailyPnLHistory[1].date # today
  /\ dailyPnLHistory[Len(dailyPnLHistory)].date = today
  /\ PreviousValueOf(dailyPnLHistory[1]) # startBalance
  /\ lastSample = "updated"

\* the usd value the last OK response carried for symbol S, 0 when it left
\* the symbol out
UsdInLastData(S) ==
  LET coinId == IF S = "BTC" THEN "bitcoin" ELSE "ethereum"
  IN  IF coinId \in DOMAIN lastData THEN lastData[coinId] ELSE Zero

\* C26: after a price response has been received, the price map holds
\* exactly the symbols the last response carried a price for, each with that
\* price: a symbol the response left out has no price, whatever price it had
\* before, and its position has current price 0 and current value 0.
C26_PriceMapReplaced ==
  lastData # <<>> =>
    /\ DOMAIN tokenPrices = {S \in {"BTC", "ETH"} : UsdInLastData(S) # Zero}
    /\ \A S \in DOMAIN tokenPrices : tokenPrices[S] = UsdInLastData(S)
    /\ \A i \in 1..Len(positions) :
         UsdInLastData(positions[i].symbol) = Zero =>
           /\ positions[i].currentPrice = Zero
           /\ positions[i].currentValue = Zero

\* a held symbol that was priced when today's snapshot was taken has been
\* left out of the last response and has no price
C26_Witness ==
  /\ lastData # <<>>
  /\ HasEntry(dailyPnLHistory, today)
  /\ \E i \in 1..Len(positions) :
       /\ positions[i].symbol = "BTC"
       /\ positions[i].currentValue = Zero
  /\ "BTC" \notin DOMAIN tokenPrices
  /\ UsdInLastData("BTC") = Zero

\* C27: for any interleaving of connection attempts on different exchanges,
\* an attempt that completes and stores its connection removes no stored
\* connection of another exchange: started before either completes and both
\* successful, both are stored afterwards.
C27_ConnectKeepsOthers ==
  [][\A id \in EXCHANGE_IDS :
       (/\ connecting[id].active
        /\ ~connecting'[id].active
        /\ IsConnected(storedConnections', id)) =>
         \A other \in EXCHANGE_IDS \ {id} :
           IsConnected(storedConnections, other) =>
             IsConnected(storedConnections', other)]_vars

\* C28: every credential set the connector has accepted and stored as a
\* connected exchange passes the validateCredentials check that
\* fetchExchangeData runs for the same exchange id.
C28_StoredCredentialsValidate ==
  \A i \in 1..Len(storedConnections) :
    storedConnections[i].connected =>
      validateCredentials(storedConnections[i].id, storedConnections[i].credentials)

\* the value of a fetched token at the prices the call used, 0 without one
WalletValueOf(t) ==
  IF t.symbol \in DOMAIN walletPrices THEN RMul(t.balance, walletPrices[t.symbol])
  ELSE Zero

RECURSIVE SumBalanceTimesPrice(_)
SumBalanceTimesPrice(tokens) ==
  IF tokens = <<>> THEN Zero
  ELSE RAdd(SumBalanceTimesPrice(Tail(tokens)), WalletValueOf(Head(tokens)))

\* the wallet data is that of a refresh that completed successfully
Refreshed == walletData.lastUpdated # "null"

C30_LoadingEnds ==
  /\ \A r \in 1..MaxWalletRuns :
       (walletRuns[r].pc # "idle")
         ~> (walletRuns[r].pc = "idle" /\ ~walletData.isLoading)
  /\ [][\A r \in 1..MaxWalletRuns :
          (/\ walletRuns[r].pc = "balances"
           /\ walletRuns'[r].pc = "idle"
           /\ walletData'.error # "null") =>
            /\ ~walletData'.isLoading
            /\ walletData'.error \in {"Failed to fetch ETH balance",
                                      "Failed to fetch token balances"}
            /\ walletData'.totalValue = walletData.totalValue
            /\ walletData'.tokens = walletData.tokens
            /\ walletData'.lastUpdated = walletData.lastUpdated]_vars

\* a call has failed after an earlier one had fetched tokens: the error is
\* shown next to the total and the tokens of the earlier call
C30_Witness ==
  /\ walletData.error # "null"
  /\ ~walletData.isLoading
  /\ walletData.tokens # <<>>
  /\ walletData.totalValue # Zero
  /\ walletData.lastUpdated # "null"
  /\ RunsInFlight = {}

====
